---- MODULE Spec2Model ----
(***************************************************************************)
(* A model of the IMAP front ends: the wrapper around the IMAP client      *)
(* library (client_wrapper.py), the command shell (client_shell.py) and    *)
(* the GUI (gui.py).  The library and the mail server are the environment: *)
(* every library call either returns or raises one of the exception        *)
(* classes the wrapper method around it catches.                           *)
(***************************************************************************)
EXTENDS Integers, Sequences, FiniteSets, TLC

\* ------------------------------------------------------------------ bounds
MaxMsg == 2
MaxConnects == 2
MaxAppend == 1
MaxInputLen == 3
MaxHeaderLen == 3
MaxAttachments == 2

\* fetch_message_ids: limit: int = 10
Limit == 10

VARIABLES
    ui,               \* main.py: "shell" or "gui"
    pc,               \* "running", "exited" (cmdloop left) or "crashed" (an exception escaped a handler)
    session,          \* the front end's self.client is not None
    client,           \* the wrapper's self.client: 0 is None, else the connection
    current_folder,   \* the wrapper's self.current_folder: "None" or a folder
    nextConn,         \* connections the library has opened so far
    openConns,        \* library connections opened and not logged out
    mailbox,          \* the server: folder -> set of message ids
    appended,         \* messages appended so far
    current_messages, \* the GUI's listing map (its keys)
    listed,           \* where the keys of current_messages were listed from
    status_label,     \* the GUI's status label
    writes,           \* the file writes the last handler made, in order
    calls,            \* the library calls the last handler issued, in order
    out,              \* what the last handler printed or appended to the output
    last,             \* the last handler: its name and what it was given
    ids_input,        \* the text given to the id prompt (the id filter on its own)
    parsed,           \* what the id filter made of it
    header,           \* a byte-valued header (header decoding on its own)
    decoded,          \* what header decoding made of it
    files,            \* the attachments/ tree: <<dir, filename>> -> data, 0 is no file
    att_list,         \* the attachment list last given to a save (saving on its own)
    att_dir,          \* the directory it was saved to
    att_err           \* an OS error was reported during that save

mainVars == <<ui, pc, session, client, current_folder, nextConn, openConns, mailbox,
              appended, current_messages, listed, status_label, calls, writes, out, last>>
parseVars == <<ids_input, parsed>>
decodeVars == <<header, decoded>>
saveVars == <<files, att_list, att_dir, att_err>>
vars == <<mainVars, parseVars, decodeVars, saveVars>>

\* ------------------------------------------------------------ small helpers
RECURSIVE SeqsUpTo(_, _)
SeqsUpTo(S, n) ==
    IF n = 0 THEN {<<>>}
    ELSE LET shorter == SeqsUpTo(S, n - 1)
         IN  shorter \cup {Append(s, x) : s \in {t \in shorter : Len(t) = n - 1}, x \in S}

Range(s) == {s[i] : i \in 1..Len(s)}

\* The ids of a set as the ascending list the server returns them in.
RECURSIVE SortedSeq(_)
SortedSeq(S) ==
    IF S = {} THEN <<>>
    ELSE LET m == CHOOSE x \in S : \A y \in S : x <= y
         IN  <<m>> \o SortedSeq(S \ {m})

\* ---------------------------------------------------- message id filtering
\* Characters of an id prompt's text.  "sup2" stands for U+00B2 (superscript
\* two): str.isdigit() is True for it and int() raises ValueError on it.
Chars == {"1", "2", "a", "-", " ", ",", "sup2"}
DecimalDigits == {"1", "2"}

\* str.split(','): the pieces between the commas, empty pieces kept.
RECURSIVE Split(_)
Split(s) ==
    IF \A i \in 1..Len(s) : s[i] # "," THEN <<s>>
    ELSE LET k == CHOOSE i \in 1..Len(s) : s[i] = "," /\ \A j \in 1..(i - 1) : s[j] # ","
         IN  <<SubSeq(s, 1, k - 1)>> \o Split(SubSeq(s, k + 1, Len(s)))

\* str.strip(): leading and trailing whitespace removed.
RECURSIVE Strip(_)
Strip(s) ==
    IF s = <<>> THEN s
    ELSE IF Head(s) = " " THEN Strip(Tail(s))
    ELSE IF s[Len(s)] = " " THEN Strip(SubSeq(s, 1, Len(s) - 1))
    ELSE s

\* str.isdigit(): non-empty and every character has the Unicode digit property.
IsDigit(s) == s # <<>> /\ \A i \in 1..Len(s) : s[i] \in DecimalDigits \cup {"sup2"}

\* int(s) on a string that passed isdigit(): ValueError unless all decimal.
IntRaises(s) == \E i \in 1..Len(s) : s[i] \notin DecimalDigits

DigitVal(c) == IF c = "1" THEN 1 ELSE 2

RECURSIVE IntValue(_)
IntValue(s) ==
    IF s = <<>> THEN 0
    ELSE 10 * IntValue(SubSeq(s, 1, Len(s) - 1)) + DigitVal(s[Len(s)])

RECURSIVE IdsOfTokens(_)
IdsOfTokens(toks) ==
    IF toks = <<>> THEN <<>>
    ELSE LET t == Strip(Head(toks))
         IN  (IF IsDigit(t) THEN <<IntValue(t)>> ELSE <<>>) \o IdsOfTokens(Tail(toks))

\* [int(id_.strip()) for id_ in text.split(',') if id_.strip().isdigit()]:
\* the list, or a ValueError when int() raises on a token the filter let through.
ParseIds(text) ==
    LET toks == Split(text)
    IN  IF \E i \in 1..Len(toks) : IsDigit(Strip(toks[i])) /\ IntRaises(Strip(toks[i]))
        THEN [raised |-> TRUE, ids |-> <<>>]
        ELSE [raised |-> FALSE, ids |-> IdsOfTokens(toks)]

\* IMAPClientShell.get_message_ids_input: the ValueError is caught, [] returned.
get_message_ids_input(text) ==
    LET r == ParseIds(text)
    IN  IF r.raised THEN <<>> ELSE r.ids

\* ------------------------------------------------------------ header decoding
\* Bytes of a header: 'A', the UTF-8 encoding of e-acute (C3 A9), Latin-1
\* e-acute (E9, a UTF-8 three-byte lead) and FF (never valid in UTF-8).
Bytes == {65, 195, 169, 233, 255}

IsCont(b) == b >= 128 /\ b <= 191

\* The length of the well-formed UTF-8 sequence b starts with, 0 when none.
Utf8SeqLen(b) ==
    LET n == Len(b)
        b1 == b[1]
    IN  IF b1 < 128 THEN 1
        ELSE IF b1 >= 194 /\ b1 <= 223
             THEN IF n >= 2 /\ IsCont(b[2]) THEN 2 ELSE 0
        ELSE IF b1 >= 224 /\ b1 <= 239
             THEN IF /\ n >= 3
                     /\ IsCont(b[2])
                     /\ IsCont(b[3])
                     /\ (b1 = 224 => b[2] >= 160)
                     /\ (b1 = 237 => b[2] <= 159)
                  THEN 3 ELSE 0
        ELSE 0

Utf8CodePoint(b, n) ==
    IF n = 1 THEN b[1]
    ELSE IF n = 2 THEN (b[1] - 192) * 64 + (b[2] - 128)
    ELSE (b[1] - 224) * 4096 + (b[2] - 128) * 64 + (b[3] - 128)

\* bytes.decode('utf-8', errors=...): the code points, or UnicodeDecodeError.
\* With errors='ignore' the bytes of an ill-formed sequence are dropped.
RECURSIVE Utf8Decode(_, _)
Utf8Decode(b, errors) ==
    IF b = <<>> THEN [raised |-> FALSE, value |-> <<>>]
    ELSE LET n == Utf8SeqLen(b)
         IN  IF n > 0
             THEN LET rest == Utf8Decode(SubSeq(b, n + 1, Len(b)), errors)
                  IN  [raised |-> rest.raised,
                       value |-> IF rest.raised THEN <<>>
                                 ELSE <<Utf8CodePoint(b, n)>> \o rest.value]
             ELSE IF errors = "ignore" THEN Utf8Decode(Tail(b), errors)
             ELSE [raised |-> TRUE, value |-> <<>>]

\* bytes.decode('latin1'): every byte is its own code point; never raises.
Latin1Decode(b) == [raised |-> FALSE, value |-> b]

\* try: x.decode('utf-8', errors='ignore')
\* except UnicodeDecodeError: x.decode('latin1', errors='ignore')
DecodeHeaderBytes(b) ==
    LET r == Utf8Decode(b, "ignore")
    IN  IF r.raised THEN Latin1Decode(b) ELSE r

extract_sender(b) == DecodeHeaderBytes(b)
extract_subject(b) == DecodeHeaderBytes(b)
extract_attachment_filename(b) == DecodeHeaderBytes(b)

\* ------------------------------------------------------------ saving files
Filenames == {"a.txt", "b.txt"}
Att(f, d) == [filename |-> f, data |-> d]
NoFiles == [p \in {} |-> 0]

FileAt(fs, dir, f) == IF <<dir, f>> \in DOMAIN fs THEN fs[<<dir, f>>] ELSE 0

\* Path.write_bytes(data): the file at the path holds data afterwards.
WriteBytes(fs, dir, f, d) ==
    [p \in DOMAIN fs \cup {<<dir, f>>} |-> IF p = <<dir, f>> THEN d ELSE fs[p]]

\* for filename, file_data in attachments: write_bytes, OSError caught and
\* printed.  bad: the positions of the list at which the write raises OSError.
\* The writes in order, each with whether it went through.
RECURSIVE WriteEach(_, _, _, _)
WriteEach(dir, atts, i, bad) ==
    IF i > Len(atts) THEN <<>>
    ELSE <<[dir |-> dir, filename |-> atts[i].filename, data |-> atts[i].data,
            ok |-> i \notin bad]>>
         \o WriteEach(dir, atts, i + 1, bad)

\* The directories: 0 is attachments/, m > 0 is attachments/message_m/.
save_attachments(atts, bad) == WriteEach(0, atts, 1, bad)
download_specific_attachments(msg_id, atts, bad) == WriteEach(msg_id, atts, 1, bad)

\* The tree after the writes: a write that raised leaves its file as it was.
RECURSIVE ApplyWrites(_, _)
ApplyWrites(fs, ws) ==
    IF ws = <<>> THEN fs
    ELSE ApplyWrites(IF Head(ws).ok
                     THEN WriteBytes(fs, Head(ws).dir, Head(ws).filename, Head(ws).data)
                     ELSE fs,
                     Tail(ws))

OsErrorReported(ws) == \E i \in 1..Len(ws) : ~ws[i].ok

\* What the messages of the mailbox carry: message 1 two attachments, message
\* 2 one with the name of message 1's first, any other message none.
MsgAttachments(m) ==
    IF m = 1 THEN <<Att("a.txt", 1), Att("b.txt", 2)>>
    ELSE IF m = 2 THEN <<Att("a.txt", 3)>>
    ELSE <<>>

\* ------------------------------------------------------ the library calls
Folders == {"INBOX", "Sent"}
Outcomes == {"ok", "err"}

\* A library call: the method, what it was given, whether it returned.
CallOn(op, ok, arg) == [op |-> op, ok |-> ok, arg |-> arg]
Call(op, ok) == CallOn(op, ok, <<>>)
Msg(kind, by, ch, text) == [kind |-> kind, by |-> by, ch |-> ch, text |-> text]
Printed(kind, by, text) == Msg(kind, by, "stdout", text)
Shown(kind, by, text) == Msg(kind, by, "output", text)

NoListing == [conn |-> 0, folder |-> "None"]

\* The server answers SEARCH and FETCH only with a folder selected; the
\* wrapper's current_folder is the folder selected on its connection.
SearchOutcomes == IF current_folder = "None" THEN {"err"} ELSE Outcomes

\* The answers worth telling apart: with no connection no call is issued.
Answers == IF session /\ client # 0 THEN Outcomes ELSE {"ok"}
SearchAnswers == IF session /\ client # 0 THEN SearchOutcomes ELSE {"err"}

\* The ids whose fetch raises in one handler run: none, one id of the
\* selected folder, or all of them.
FailingSets(res) ==
    IF session /\ client # 0 /\ current_folder # "None" /\ res = "ok"
    THEN {{}, mailbox[current_folder]} \cup {{i} : i \in mailbox[current_folder]}
    ELSE {{}}

\* What a wrapper method did: the library calls it issued, what it printed,
\* and whether an exception left it (raised).
Did(c, o) == [calls |-> c, out |-> o, raised |-> FALSE]

\* IMAPClientWrapper.login
login(res) ==
    IF client = 0
    THEN Did(<<>>, <<Printed("error", "login", "Error: Not connected to the server.")>>)
    ELSE IF res = "ok"
    THEN Did(<<Call("login", TRUE)>>, <<Printed("success", "login", "Logged in successfully!")>>)
    ELSE Did(<<Call("login", FALSE)>>, <<Printed("error", "login", "Login failed")>>)

\* IMAPClientWrapper.list_folders: prints the folders, returns None.
list_folders(res) ==
    IF client = 0
    THEN Did(<<>>, <<Printed("error", "list", "Not connected!")>>)
    ELSE IF res = "ok"
    THEN Did(<<Call("list_folders", TRUE)>>, <<Printed("success", "list", "Folders:")>>)
    ELSE Did(<<Call("list_folders", FALSE)>>, <<Printed("error", "list", "Error listing folders")>>)

\* IMAPClientWrapper.select_folder: current_folder is set on success only.
select_folder(folder, res) ==
    IF client = 0
    THEN Did(<<>>, <<Printed("error", "select", "Not connected!")>>)
    ELSE IF res = "ok"
    THEN Did(<<Call("select_folder", TRUE)>>, <<Printed("success", "select", "Selected folder")>>)
    ELSE Did(<<Call("select_folder", FALSE)>>, <<Printed("error", "select", "Error selecting folder")>>)

FolderAfterSelect(folder, res) ==
    IF client # 0 /\ res = "ok" THEN folder ELSE current_folder

\* messages[-limit:] if len(messages) >= limit else messages
LastLimit(messages) ==
    IF Len(messages) >= Limit
    THEN SubSeq(messages, Len(messages) - Limit + 1, Len(messages))
    ELSE messages

\* IMAPClientWrapper.fetch_message_ids: no guard of its own; a None client
\* raises AttributeError, which it catches.
fetch_message_ids(res) ==
    IF client = 0
    THEN [ids |-> <<>>, calls |-> <<>>,
          out |-> <<Printed("error", "search", "Client is not initialized.")>>]
    ELSE IF res = "ok"
    THEN [ids |-> LastLimit(SortedSeq(mailbox[current_folder])),
          calls |-> <<Call("search", TRUE)>>, out |-> <<>>]
    ELSE [ids |-> <<>>, calls |-> <<Call("search", FALSE)>>,
          out |-> <<Printed("error", "search", "Error fetching message IDs")>>]

\* client.fetch raises for the ids in failing and, with no folder selected,
\* for every id; it returns no data for an id the folder does not hold.
FetchRaises(msg_id, failing) == msg_id \in failing \/ current_folder = "None"

\* IMAPClientWrapper.fetch_message: catches IMAPClientError only, so the
\* AttributeError of a None client leaves it.
fetch_message(msg_id, failing) ==
    IF client = 0
    THEN [msg |-> 0, calls |-> <<>>, out |-> <<>>, raised |-> TRUE]
    ELSE IF FetchRaises(msg_id, failing)
    THEN [msg |-> 0, calls |-> <<CallOn("fetch", FALSE, <<msg_id>>)>>,
          out |-> <<Printed("error", "fetch", "Error fetching message")>>, raised |-> FALSE]
    ELSE IF msg_id \notin mailbox[current_folder]
    THEN [msg |-> 0, calls |-> <<CallOn("fetch", TRUE, <<msg_id>>)>>,
          out |-> <<Printed("error", "fetch", "No data found for message ID")>>, raised |-> FALSE]
    ELSE [msg |-> msg_id, calls |-> <<CallOn("fetch", TRUE, <<msg_id>>)>>, out |-> <<>>, raised |-> FALSE]

\* A loop "for msg_id in ids: msg = fetch_message(msg_id) ...": the messages
\* fetched, the calls and prints in order; an exception ends the loop.
FetchJoin(r, rest) ==
    IF r.raised THEN [msgs |-> <<>>, calls |-> <<>>, out |-> <<>>, raised |-> TRUE]
    ELSE [msgs |-> (IF r.msg = 0 THEN <<>> ELSE <<r.msg>>) \o rest.msgs,
          calls |-> r.calls \o rest.calls,
          out |-> r.out \o rest.out,
          raised |-> rest.raised]

RECURSIVE FetchEach(_, _)
FetchEach(ids, failing) ==
    IF ids = <<>> THEN [msgs |-> <<>>, calls |-> <<>>, out |-> <<>>, raised |-> FALSE]
    ELSE FetchJoin(fetch_message(Head(ids), failing), FetchEach(Tail(ids), failing))

\* delete_emails as it would be without the expunge() after delete_messages.
delete_emails_NoExpunge(msg_ids, resDelete, resExpunge) ==
    IF client = 0
    THEN Did(<<>>, <<Printed("error", "delete", "Not connected!")>>)
    ELSE IF current_folder = "None"
    THEN Did(<<>>, <<Printed("error", "delete", "No folder selected.")>>)
    ELSE IF resDelete = "err"
    THEN Did(<<CallOn("delete_messages", FALSE, msg_ids)>>,
             <<Printed("error", "delete", "Error deleting messages")>>)
    ELSE Did(<<CallOn("delete_messages", TRUE, msg_ids)>>,
             <<Printed("success", "delete", "Deleted n message(s)")>>)

\* IMAPClientWrapper.delete_emails: delete_messages, then expunge.
delete_emails(msg_ids, resDelete, resExpunge) ==
    IF client = 0
    THEN Did(<<>>, <<Printed("error", "delete", "Not connected!")>>)
    ELSE IF current_folder = "None"
    THEN Did(<<>>, <<Printed("error", "delete", "No folder selected.")>>)
    ELSE IF resDelete = "err"
    THEN Did(<<CallOn("delete_messages", FALSE, msg_ids)>>,
             <<Printed("error", "delete", "Error deleting messages")>>)
    ELSE IF resExpunge = "err"
    THEN Did(<<CallOn("delete_messages", TRUE, msg_ids), Call("expunge", FALSE)>>,
             <<Printed("error", "delete", "Error deleting messages")>>)
    ELSE Did(<<CallOn("delete_messages", TRUE, msg_ids), Call("expunge", TRUE)>>,
             <<Printed("success", "delete", "Deleted n message(s)")>>)

\* The mailbox after delete_emails: expunge removes what delete_messages flagged.
MailboxAfterDelete(msg_ids, resDelete, resExpunge) ==
    IF client # 0 /\ current_folder # "None" /\ resDelete = "ok" /\ resExpunge = "ok"
    THEN [mailbox EXCEPT ![current_folder] = @ \ Range(msg_ids)]
    ELSE mailbox

\* IMAPClientWrapper.logout: the handle is dropped in the finally clause.
logout(res) ==
    IF client = 0
    THEN Did(<<>>, <<Printed("error", "logout", "Client is already disconnected.")>>)
    ELSE IF res = "ok"
    THEN Did(<<Call("logout", TRUE)>>, <<Printed("success", "logout", "Logged out successfully.")>>)
    ELSE Did(<<Call("logout", FALSE)>>, <<Printed("error", "logout", "Error during logout")>>)

\* The handle as a logout without the finally clause would leave it.
ClientAfterLogout_NoFinally(res) == IF res = "ok" THEN 0 ELSE client

ClientAfterLogout(res) == 0

\* The library's connections after logout: a logout that raised may or may
\* not have closed the connection (closed).
ConnsAfterLogout(res, closed) ==
    IF client = 0 THEN openConns
    ELSE IF res = "ok" \/ closed THEN openConns \ {client}
    ELSE openConns

\* IMAPClientWrapper.upload_email
upload_email(folder, res) ==
    IF client = 0
    THEN Did(<<>>, <<Printed("error", "upload", "Not connected!")>>)
    ELSE IF res = "ok"
    THEN Did(<<Call("append", TRUE)>>, <<Printed("success", "upload", "Email uploaded")>>)
    ELSE Did(<<Call("append", FALSE)>>, <<Printed("error", "upload", "IMAPClient error during email upload")>>)

\* A message appended to a folder gets the next id of the mailbox.
NewId == MaxMsg + appended + 1

MailboxAfterUpload(folder, res) ==
    IF client # 0 /\ res = "ok"
    THEN [mailbox EXCEPT ![folder] = @ \cup {NewId}]
    ELSE mailbox

\* IMAPClientWrapper.__init__ and connect: a fresh wrapper, whose client is
\* set when the library opens the connection.
connect(res) ==
    IF res = "ok"
    THEN Did(<<Call("connect", TRUE)>>, <<Printed("success", "connect", "Connected successfully.")>>)
    ELSE Did(<<Call("connect", FALSE)>>, <<Printed("error", "connect", "Connection failed")>>)

ClientAfterConnect(res) == IF res = "ok" THEN nextConn + 1 ELSE 0

\* The library's connections after the front end has replaced its wrapper:
\* the earlier wrapper is dropped without logout, and whether its connection
\* is closed is up to the interpreter's finalisation (collected).
ConnsAfterConnect(res, collected) ==
    (IF collected THEN openConns \ {client} ELSE openConns)
        \cup (IF res = "ok" THEN {nextConn + 1} ELSE {})

\* ------------------------------------------------------------------- inputs
AllIds == 1..(MaxMsg + MaxAppend)

\* Texts typed at the GUI's id prompt: "1", "1,2", "1,1", "a", "1,<sup2>", "12".
IdTexts == {<<"1">>, <<"1", ",", "2">>, <<"1", ",", "1">>, <<"a">>,
            <<"1", ",", "sup2">>, <<"1", "2">>}

\* Texts typed at the shell's delete prompt: "1", "1,2", "a", "1,<sup2>".
DeleteTexts == {<<"1">>, <<"1", ",", "2">>, <<"a">>, <<"1", ",", "sup2">>}

\* Answers to "Enter attachment numbers ... or 'all'".
Selections == {[all |-> TRUE, text |-> <<>>]}
              \cup {[all |-> FALSE, text |-> t] : t \in {<<"1">>, <<"a">>}}

\* Where a write raises OSError: nowhere, or at the first file of a list.
BadWrites == {{}, {1}}

\* Texts typed at the download prompt: "1", "1,2", "a".
DownloadTexts == {<<"1">>, <<"1", ",", "2">>, <<"a">>}
UploadFolders == {"Sent"}

\* ---------------------------------------------------------------- state
HasConn == session /\ client # 0

\* What is kept of a handler run: its name, whether it got as far as
\* forwarding to the wrapper (reached), whether a connection and a listing
\* were there when it began, the ids it was given, whether it was confirmed.
Handled(op, reached) == [op |-> op, reached |-> reached, hadConn |-> HasConn,
                         hadListing |-> current_messages # {},
                         ids |-> <<>>, confirmed |-> FALSE]

NotParsed == [by |-> "none", raised |-> FALSE, ids |-> <<>>]
NotDecoded == [by |-> "none", raised |-> FALSE, value |-> <<>>]

PureInit ==
    /\ ids_input = <<>>
    /\ parsed = NotParsed
    /\ header = <<>>
    /\ decoded = NotDecoded
    /\ files = NoFiles
    /\ att_list = <<>>
    /\ att_dir = 0
    /\ att_err = FALSE

MainInit ==
    /\ pc = "running"
    /\ session = FALSE
    /\ client = 0
    /\ current_folder = "None"
    /\ nextConn = 0
    /\ openConns = {}
    /\ mailbox = [f \in Folders |-> IF f = "INBOX" THEN 1..MaxMsg ELSE {1}]
    /\ appended = 0
    /\ current_messages = {}
    /\ listed = NoListing
    /\ status_label = "Status: Disconnected"
    /\ calls = <<>>
    /\ writes = <<>>
    /\ out = <<>>
    /\ last = [op |-> "init", reached |-> FALSE, hadConn |-> FALSE,
               hadListing |-> FALSE, ids |-> <<>>, confirmed |-> FALSE]

Init ==
    /\ ui \in {"shell", "gui"}
    /\ MainInit
    /\ PureInit

pureVars == <<parseVars, decodeVars, saveVars>>
wrapperVars == <<session, client, current_folder>>
serverVars == <<nextConn, openConns, mailbox, appended>>
guiVars == <<current_messages, listed, status_label>>

\* A handler that only printed: nothing but calls, out and last changes.
PrintOnly(op, reached, r) ==
    /\ calls' = r.calls
    /\ out' = r.out
    /\ writes' = <<>>
    /\ last' = Handled(op, reached)
    /\ UNCHANGED <<ui, pc, wrapperVars, serverVars, guiVars, pureVars>>

\* --------------------------------------------------------------- the shell
\* IMAPClientShell.do_connect
do_connect(portOk, res, collected) ==
    /\ ui = "shell" /\ pc = "running"
    /\ nextConn < MaxConnects
    /\ IF ~portOk
       THEN PrintOnly("connect", FALSE,
                      Did(<<>>, <<Printed("error", "connect", "Port must be an integer.")>>))
       ELSE /\ session' = TRUE
            /\ client' = ClientAfterConnect(res)
            /\ current_folder' = "None"
            /\ nextConn' = IF res = "ok" THEN nextConn + 1 ELSE nextConn
            /\ openConns' = ConnsAfterConnect(res, collected)
            /\ calls' = connect(res).calls
            /\ out' = connect(res).out
            /\ writes' = <<>>
            /\ last' = Handled("connect", TRUE)
            /\ UNCHANGED <<ui, pc, mailbox, appended, guiVars, pureVars>>

\* IMAPClientShell.do_login
do_login(res) ==
    /\ ui = "shell" /\ pc = "running"
    /\ PrintOnly("login", TRUE,
                 IF ~session
                 THEN Did(<<>>, <<Printed("error", "login", "Not connected. Use 'connect' first.")>>)
                 ELSE login(res))

\* IMAPClientShell.do_list
do_list(res) ==
    /\ ui = "shell" /\ pc = "running"
    /\ PrintOnly("list", TRUE,
                 IF ~session
                 THEN Did(<<>>, <<Printed("error", "list", "Not connected. Use 'connect' and 'login' first.")>>)
                 ELSE list_folders(res))

\* IMAPClientShell.do_select
do_select(folder, res) ==
    /\ ui = "shell" /\ pc = "running"
    /\ LET r == IF ~session
                THEN Did(<<>>, <<Printed("error", "select", "Not connected.")>>)
                ELSE select_folder(folder, res)
       IN  /\ calls' = r.calls
           /\ out' = r.out
    /\ current_folder' = IF session THEN FolderAfterSelect(folder, res) ELSE current_folder
    /\ writes' = <<>>
    /\ last' = Handled("select", TRUE)
    /\ UNCHANGED <<ui, pc, session, client, serverVars, guiVars, pureVars>>

\* for msg_id in messages: ... if download_attachments and attachments:
\* save_attachments(attachments)
RECURSIVE SaveEach(_, _)
SaveEach(msgs, bad) ==
    IF msgs = <<>> THEN <<>>
    ELSE save_attachments(MsgAttachments(Head(msgs)), bad) \o SaveEach(Tail(msgs), bad)

SaveReports(ws) ==
    IF ws = <<>> THEN <<>>
    ELSE IF OsErrorReported(ws) THEN <<Printed("error", "save", "Error saving attachment")>>
    ELSE <<Printed("success", "save", "Attachment saved")>>

Done(c, o, w) == [calls |-> c, out |-> o, writes |-> w, raised |-> FALSE]

\* IMAPClientWrapper.fetch_emails, from the listing on.
FetchedEmails(m, f, w) ==
    IF m.ids = <<>>
    THEN Done(m.calls, m.out \o <<Printed("info", "fetch", "No messages found.")>>, <<>>)
    ELSE Done(m.calls \o f.calls, m.out \o f.out \o SaveReports(w), w)

FetchListed(m, f, download, bad) ==
    FetchedEmails(m, f, IF download THEN SaveEach(f.msgs, bad) ELSE <<>>)

FetchFrom(m, download, failing, bad) ==
    FetchListed(m, FetchEach(m.ids, failing), download, bad)

\* IMAPClientWrapper.fetch_emails
fetch_emails(download, res, failing, bad) ==
    IF client = 0
    THEN Done(<<>>, <<Printed("error", "fetch", "Not connected!")>>, <<>>)
    ELSE IF current_folder = "None"
    THEN Done(<<>>, <<Printed("error", "fetch", "No folder selected.")>>, <<>>)
    ELSE FetchFrom(fetch_message_ids(res), download, failing, bad)

FetchEnds(r) ==
    /\ calls' = r.calls
    /\ out' = r.out
    /\ writes' = r.writes
    /\ last' = Handled("fetch", TRUE)
    /\ UNCHANGED <<ui, pc, wrapperVars, serverVars, guiVars, pureVars>>

\* IMAPClientShell.do_fetch
do_fetch(download, res, failing, bad) ==
    /\ ui = "shell" /\ pc = "running"
    /\ FetchEnds(IF ~session
                 THEN Done(<<>>, <<Printed("error", "fetch", "Not connected.")>>, <<>>)
                 ELSE fetch_emails(download, res, failing, bad))

\* [attachments[i - 1] for i in indices if 0 < i <= len(attachments)]
RECURSIVE PickByIndex(_, _)
PickByIndex(atts, indices) ==
    IF indices = <<>> THEN <<>>
    ELSE (IF 0 < Head(indices) /\ Head(indices) <= Len(atts)
          THEN <<atts[Head(indices)]>> ELSE <<>>) \o PickByIndex(atts, Tail(indices))

\* IMAPClientShell.get_attachment_selection
get_attachment_selection(atts, selection) ==
    IF selection.all THEN atts
    ELSE LET r == ParseIds(selection.text)
         IN  IF r.raised THEN <<>> ELSE PickByIndex(atts, r.ids)

\* IMAPClientShell.process_message, from the fetch on.
ProcessFetched(r, msg_id, atts, chosen, bad) ==
    IF r.raised THEN [calls |-> <<>>, out |-> <<>>, writes |-> <<>>, raised |-> TRUE]
    ELSE IF r.msg = 0
    THEN Done(r.calls, r.out \o <<Printed("error", "download", "Message ID not found.")>>, <<>>)
    ELSE IF atts = <<>>
    THEN Done(r.calls, <<Printed("info", "download", "No attachments found in message ID")>>, <<>>)
    ELSE IF chosen = <<>>
    THEN Done(r.calls, <<Printed("info", "download", "No valid attachments selected.")>>, <<>>)
    ELSE Done(r.calls,
              SaveReports(download_specific_attachments(msg_id, chosen, bad)),
              download_specific_attachments(msg_id, chosen, bad))

ProcessAttachments(r, msg_id, atts, selection, bad) ==
    ProcessFetched(r, msg_id, atts, get_attachment_selection(atts, selection), bad)

\* IMAPClientShell.process_message
process_message(msg_id, failing, selection, bad) ==
    ProcessAttachments(fetch_message(msg_id, failing), msg_id,
                       MsgAttachments(fetch_message(msg_id, failing).msg), selection, bad)

\* for msg_id in msg_ids: self.process_message(msg_id)
ProcessJoin(r, rest) ==
    IF r.raised THEN r
    ELSE [calls |-> r.calls \o rest.calls, out |-> r.out \o rest.out,
          writes |-> r.writes \o rest.writes, raised |-> rest.raised]

RECURSIVE ProcessEach(_, _, _, _)
ProcessEach(msg_ids, failing, selection, bad) ==
    IF msg_ids = <<>> THEN Done(<<>>, <<>>, <<>>)
    ELSE ProcessJoin(process_message(Head(msg_ids), failing, selection, bad),
                     ProcessEach(Tail(msg_ids), failing, selection, bad))

\* IMAPClientShell.do_download_attachments, from the listing on: m is what
\* fetch_message_ids returned, shown the display loop, msg_ids the ids typed,
\* p the processing of each of them.
DownloadOutcome(m, shown, msg_ids, p) ==
    IF ~session
    THEN Done(<<>>, <<Printed("error", "download", "Not connected.")>>, <<>>)
    ELSE IF m.ids = <<>>
    THEN Done(m.calls, m.out \o <<Printed("info", "download", "No messages available.")>>, <<>>)
    ELSE IF shown.raised
    THEN [calls |-> m.calls \o shown.calls, out |-> m.out \o shown.out,
          writes |-> <<>>, raised |-> TRUE]
    ELSE IF msg_ids = <<>>
    THEN Done(m.calls \o shown.calls,
              m.out \o shown.out
                  \o <<Printed("error", "download", "No valid message IDs provided.")>>,
              <<>>)
    ELSE [calls |-> m.calls \o shown.calls \o p.calls,
          out |-> m.out \o shown.out \o p.out,
          writes |-> p.writes, raised |-> p.raised]

DownloadEnds(r, asked, msg_ids) ==
    /\ calls' = r.calls
    /\ out' = r.out
    /\ writes' = r.writes
    /\ pc' = IF r.raised THEN "crashed" ELSE pc
    /\ last' = [Handled("download", asked) EXCEPT !.ids = IF asked THEN msg_ids ELSE <<>>]
    /\ UNCHANGED <<ui, wrapperVars, serverVars, guiVars, pureVars>>

DownloadListed(m, shown, msg_ids, p) ==
    DownloadEnds(DownloadOutcome(m, shown, msg_ids, p),
                 session /\ m.ids # <<>> /\ ~shown.raised, msg_ids)

DownloadFrom(m, text, failing, selection, bad) ==
    DownloadListed(m, FetchEach(m.ids, failing), get_message_ids_input(text),
                   ProcessEach(get_message_ids_input(text), failing, selection, bad))

do_download_attachments(text, res, failing, selection, bad) ==
    /\ ui = "shell" /\ pc = "running"
    /\ DownloadFrom(fetch_message_ids(res), text, failing, selection, bad)

\* IMAPClientShell.do_delete, from the listing on: m is what
\* fetch_message_ids returned, shown the display loop, p the ids typed,
\* d what delete_emails does with them.
DeleteOutcome(m, shown, p, confirm, d) ==
    IF ~session
    THEN Did(<<>>, <<Printed("error", "delete", "Not connected.")>>)
    ELSE IF m.ids = <<>>
    THEN Did(m.calls, m.out \o <<Printed("info", "delete", "No messages to delete.")>>)
    ELSE IF shown.raised
    THEN [calls |-> m.calls \o shown.calls, out |-> m.out \o shown.out, raised |-> TRUE]
    ELSE IF p.raised
    THEN Did(m.calls \o shown.calls,
             m.out \o shown.out \o <<Printed("error", "delete", "Invalid input.")>>)
    ELSE IF p.ids = <<>>
    THEN Did(m.calls \o shown.calls,
             m.out \o shown.out
                 \o <<Printed("error", "delete", "No valid message IDs provided.")>>)
    ELSE IF ~confirm
    THEN Did(m.calls \o shown.calls,
             m.out \o shown.out \o <<Printed("info", "delete", "Deletion cancelled.")>>)
    ELSE Did(m.calls \o shown.calls \o d.calls, m.out \o shown.out \o d.out)

DeleteEnds(r, asked, deleting, p, resDelete, resExpunge) ==
    /\ calls' = r.calls
    /\ writes' = <<>>
    /\ out' = r.out
    /\ pc' = IF r.raised THEN "crashed" ELSE pc
    /\ mailbox' = IF deleting THEN MailboxAfterDelete(p.ids, resDelete, resExpunge)
                  ELSE mailbox
    /\ last' = [Handled("delete", deleting)
                  EXCEPT !.ids = IF asked /\ ~p.raised THEN p.ids ELSE <<>>,
                         !.confirmed = deleting]
    /\ UNCHANGED <<ui, wrapperVars, nextConn, openConns, appended, guiVars, pureVars>>

DeleteListed(m, shown, p, confirm, resDelete, resExpunge) ==
    DeleteEnds(DeleteOutcome(m, shown, p, confirm, delete_emails(p.ids, resDelete, resExpunge)),
               session /\ m.ids # <<>> /\ ~shown.raised,
               session /\ m.ids # <<>> /\ ~shown.raised /\ ~p.raised /\ p.ids # <<>> /\ confirm,
               p, resDelete, resExpunge)

DeleteFrom(m, text, failing, confirm, resDelete, resExpunge) ==
    DeleteListed(m, FetchEach(m.ids, failing), ParseIds(text), confirm, resDelete, resExpunge)

do_delete(text, res, failing, confirm, resDelete, resExpunge) ==
    /\ ui = "shell" /\ pc = "running"
    /\ DeleteFrom(fetch_message_ids(res), text, failing, confirm, resDelete, resExpunge)

\* IMAPClientShell.do_logout
do_logout(res, closed) ==
    /\ ui = "shell" /\ pc = "running"
    /\ IF ~session
       THEN PrintOnly("logout", FALSE,
                      Did(<<>>, <<Printed("error", "logout", "Not connected.")>>))
       ELSE /\ calls' = logout(res).calls
            /\ writes' = <<>>
            /\ out' = logout(res).out
            /\ client' = ClientAfterLogout(res)
            /\ openConns' = ConnsAfterLogout(res, closed)
            /\ session' = FALSE
            /\ current_folder' = "None"
            /\ last' = Handled("logout", TRUE)
            /\ UNCHANGED <<ui, pc, nextConn, mailbox, appended, guiVars, pureVars>>

\* IMAPClientShell.do_exit: returns True, which ends cmdloop.
do_exit(res, closed) ==
    /\ ui = "shell" /\ pc = "running"
    /\ calls' = IF session THEN logout(res).calls ELSE <<>>
    /\ writes' = <<>>
    /\ out' = IF session THEN logout(res).out ELSE <<>>
    /\ client' = IF session THEN ClientAfterLogout(res) ELSE client
    /\ openConns' = IF session THEN ConnsAfterLogout(res, closed) ELSE openConns
    /\ session' = FALSE
    /\ current_folder' = "None"
    /\ pc' = "exited"
    /\ last' = Handled("exit", session)
    /\ UNCHANGED <<ui, nextConn, mailbox, appended, guiVars, pureVars>>

\* IMAPClientShell.do_upload
do_upload(folder, res) ==
    /\ ui = "shell" /\ pc = "running"
    /\ appended < MaxAppend
    /\ LET r == IF ~session
                THEN Did(<<>>, <<Printed("error", "upload", "Not connected. Use 'connect' and 'login' first.")>>)
                ELSE upload_email(folder, res)
           stored == session /\ client # 0 /\ res = "ok"
       IN  /\ calls' = r.calls
           /\ writes' = <<>>
           /\ out' = r.out
           /\ mailbox' = IF session THEN MailboxAfterUpload(folder, res) ELSE mailbox
           /\ appended' = IF stored THEN appended + 1 ELSE appended
    /\ last' = Handled("upload", TRUE)
    /\ UNCHANGED <<ui, pc, wrapperVars, nextConn, openConns, guiVars, pureVars>>

\* ----------------------------------------------------------------- the GUI
\* A handler left by a cancelled dialog: nothing is shown, nothing changes.
Cancelled(op) == PrintOnly(op, FALSE, Did(<<>>, <<>>))

\* IMAPClientGUI.connect_to_server
connect_to_server(dialogOk, res, collected) ==
    /\ ui = "gui" /\ pc = "running"
    /\ nextConn < MaxConnects
    /\ IF ~dialogOk
       THEN Cancelled("connect")
       ELSE /\ session' = TRUE
            /\ client' = ClientAfterConnect(res)
            /\ current_folder' = "None"
            /\ nextConn' = IF res = "ok" THEN nextConn + 1 ELSE nextConn
            /\ openConns' = ConnsAfterConnect(res, collected)
            /\ calls' = connect(res).calls
            /\ writes' = <<>>
            /\ status_label' = "Connected to server"
            /\ out' = connect(res).out
                      \o <<Shown("success", "connect", "Connected successfully!")>>
            /\ last' = Handled("connect", TRUE)
            /\ UNCHANGED <<ui, pc, mailbox, appended, current_messages, listed, pureVars>>

\* IMAPClientGUI.login
gui_login(dialogOk, res) ==
    /\ ui = "gui" /\ pc = "running"
    /\ IF ~session
       THEN PrintOnly("login", TRUE, Did(<<>>, <<Shown("error", "login", "Not connected!")>>))
       ELSE IF ~dialogOk
       THEN Cancelled("login")
       ELSE PrintOnly("login", TRUE,
                      [login(res) EXCEPT !.out = @ \o <<Shown("success", "login", "Logged in successfully!")>>])

\* IMAPClientGUI.list_folders: the wrapper's list_folders returns None.
gui_list_folders(res) ==
    /\ ui = "gui" /\ pc = "running"
    /\ IF ~session
       THEN PrintOnly("list", TRUE, Did(<<>>, <<Shown("error", "list", "Not connected!")>>))
       ELSE PrintOnly("list", TRUE,
                      [list_folders(res) EXCEPT !.out = @ \o <<Shown("info", "list", "No folders found.")>>])

\* IMAPClientGUI.select_folder
gui_select_folder(dialogOk, folder, res) ==
    /\ ui = "gui" /\ pc = "running"
    /\ IF ~session
       THEN PrintOnly("select", TRUE, Did(<<>>, <<Shown("error", "select", "Not connected!")>>))
       ELSE IF ~dialogOk
       THEN Cancelled("select")
       ELSE /\ calls' = select_folder(folder, res).calls
            /\ writes' = <<>>
            /\ out' = select_folder(folder, res).out
                      \o <<Shown("success", "select", "Selected folder")>>
            /\ current_folder' = FolderAfterSelect(folder, res)
            /\ last' = Handled("select", TRUE)
            /\ UNCHANGED <<ui, pc, session, client, serverVars, guiVars, pureVars>>

\* The listing map as list_emails would start from without the clear().
ClearedListing_Kept == current_messages

\* self.current_messages.clear()
ClearedListing == {}

\* IMAPClientGUI.list_emails, from the listing on.
ListEmailsEnds(m, f) ==
    /\ calls' = IF m.ids = <<>> THEN m.calls ELSE m.calls \o f.calls
    /\ writes' = <<>>
    /\ out' = IF m.ids = <<>>
              THEN m.out \o <<Shown("info", "list_emails", "No messages found.")>>
              ELSE m.out \o f.out
    /\ current_messages' = IF m.ids = <<>> THEN ClearedListing
                           ELSE ClearedListing \cup Range(f.msgs)
    /\ listed' = IF m.ids = <<>> \/ f.msgs = <<>> THEN NoListing
                 ELSE [conn |-> client, folder |-> current_folder]
    /\ pc' = IF m.ids # <<>> /\ f.raised THEN "crashed" ELSE pc
    /\ last' = Handled("list_emails", TRUE)
    /\ UNCHANGED <<ui, wrapperVars, serverVars, status_label, pureVars>>

ListEmailsFrom(m, failing) == ListEmailsEnds(m, FetchEach(m.ids, failing))

\* IMAPClientGUI.list_emails
list_emails(res, failing) ==
    /\ ui = "gui" /\ pc = "running"
    /\ IF ~session
       THEN PrintOnly("list_emails", TRUE,
                      Did(<<>>, <<Shown("error", "list_emails", "Not connected!")>>))
       ELSE ListEmailsFrom(fetch_message_ids(res), failing)

\* IMAPClientGUI.download_attachments
download_attachments(dialogOk, msg_id, failing, bad) ==
    /\ ui = "gui" /\ pc = "running"
    /\ LET r == fetch_message(msg_id, failing)
           atts == MsgAttachments(r.msg)
           w == download_specific_attachments(msg_id, atts, bad)
       IN  IF ~session \/ current_messages = {}
           THEN PrintOnly("download", FALSE,
                          Did(<<>>, <<Shown("error", "download", "List emails first to view message IDs.")>>))
           ELSE IF ~dialogOk \/ msg_id \notin current_messages
           THEN PrintOnly("download", FALSE,
                          Did(<<>>, <<Shown("error", "download", "Invalid message ID!")>>))
           ELSE /\ calls' = r.calls
                /\ pc' = IF r.raised THEN "crashed" ELSE pc
                /\ out' = IF r.raised THEN <<>>
                          ELSE IF r.msg = 0
                          THEN r.out \o <<Shown("error", "download", "Failed to fetch message")>>
                          ELSE IF atts = <<>>
                          THEN <<Shown("info", "download", "No attachments in message")>>
                          ELSE SaveReports(w)
                               \o <<Shown("success", "download", "Attachments downloaded")>>
                /\ writes' = IF ~r.raised /\ r.msg # 0 /\ atts # <<>> THEN w ELSE <<>>
                /\ last' = [Handled("download", TRUE) EXCEPT !.ids = <<msg_id>>]
                /\ UNCHANGED <<ui, wrapperVars, serverVars, guiVars, pureVars>>

\* valid_ids = [id_ for id_ in ids_to_delete if id_ in self.current_messages]
RECURSIVE ValidIds(_, _)
ValidIds(ids, listing) ==
    IF ids = <<>> THEN <<>>
    ELSE (IF Head(ids) \in listing THEN <<Head(ids)>> ELSE <<>>) \o ValidIds(Tail(ids), listing)

\* for id_ in valid_ids: del self.current_messages[id_]
\* del raises KeyError on a key that is no longer there.
RECURSIVE DelEach(_, _)
DelEach(listing, ids) ==
    IF ids = <<>> THEN [listing |-> listing, raised |-> FALSE]
    ELSE IF Head(ids) \notin listing THEN [listing |-> listing, raised |-> TRUE]
    ELSE DelEach(listing \ {Head(ids)}, Tail(ids))

\* IMAPClientGUI.delete_emails
gui_delete_emails(dialogOk, text, confirm, resDelete, resExpunge) ==
    /\ ui = "gui" /\ pc = "running"
    /\ LET p == ParseIds(text)
           valid_ids == ValidIds(p.ids, current_messages)
           d == delete_emails(valid_ids, resDelete, resExpunge)
           removed == DelEach(current_messages, valid_ids)
       IN  IF ~session \/ current_messages = {}
           THEN PrintOnly("delete", FALSE,
                          Did(<<>>, <<Shown("error", "delete", "List emails first to view message IDs.")>>))
           ELSE IF ~dialogOk
           THEN Cancelled("delete")
           ELSE IF p.raised
           THEN PrintOnly("delete", FALSE,
                          Did(<<>>, <<Shown("error", "delete", "Invalid input.")>>))
           ELSE IF valid_ids = <<>>
           THEN PrintOnly("delete", FALSE,
                          Did(<<>>, <<Shown("error", "delete", "No valid message IDs provided.")>>))
           ELSE IF ~confirm
           THEN /\ calls' = <<>>
                /\ writes' = <<>>
                /\ out' = <<>>
                /\ last' = [Handled("delete", FALSE) EXCEPT !.ids = valid_ids]
                /\ UNCHANGED <<ui, pc, wrapperVars, serverVars, guiVars, pureVars>>
           ELSE /\ calls' = d.calls
                /\ writes' = <<>>
                /\ out' = d.out \o <<Shown("success", "delete", "Deleted n message(s).")>>
                /\ mailbox' = MailboxAfterDelete(valid_ids, resDelete, resExpunge)
                /\ current_messages' = removed.listing
                /\ listed' = IF removed.listing = {} THEN NoListing ELSE listed
                /\ pc' = IF removed.raised THEN "crashed" ELSE pc
                /\ last' = [Handled("delete", TRUE) EXCEPT !.ids = valid_ids, !.confirmed = TRUE]
                /\ UNCHANGED <<ui, wrapperVars, nextConn, openConns, appended, status_label,
                               pureVars>>

\* IMAPClientGUI.logout
gui_logout(res, closed) ==
    /\ ui = "gui" /\ pc = "running"
    /\ IF ~session
       THEN Cancelled("logout")
       ELSE /\ calls' = logout(res).calls
            /\ writes' = <<>>
            /\ out' = logout(res).out \o <<Shown("success", "logout", "Logged out.")>>
            /\ client' = ClientAfterLogout(res)
            /\ openConns' = ConnsAfterLogout(res, closed)
            /\ session' = FALSE
            /\ current_folder' = "None"
            /\ current_messages' = {}
            /\ listed' = NoListing
            /\ status_label' = "Status: Disconnected"
            /\ last' = Handled("logout", TRUE)
            /\ UNCHANGED <<ui, pc, nextConn, mailbox, appended, pureVars>>

\* ------------------------------------------------------------ the program
Asking(res) ==
    session /\ client # 0 /\ current_folder # "None" /\ res = "ok"
    /\ mailbox[current_folder] # {}

Shell ==
    \/ \E portOk \in BOOLEAN :
         \E res \in (IF portOk THEN Outcomes ELSE {"ok"}),
            collected \in (IF portOk /\ HasConn THEN BOOLEAN ELSE {FALSE}) :
              do_connect(portOk, res, collected)
    \/ \E res \in Answers : do_login(res)
    \/ \E res \in Answers : do_list(res)
    \/ \E folder \in Folders, res \in Answers : do_select(folder, res)
    \/ \E download \in BOOLEAN, res \in SearchAnswers :
         \E failing \in FailingSets(res),
            bad \in (IF download /\ Asking(res) THEN BadWrites ELSE {{}}) :
              do_fetch(download, res, failing, bad)
    \/ \E res \in SearchAnswers :
         \E failing \in FailingSets(res),
            text \in (IF Asking(res) THEN DownloadTexts ELSE {<<>>}),
            selection \in (IF Asking(res) THEN Selections ELSE {[all |-> TRUE, text |-> <<>>]}),
            bad \in (IF Asking(res) THEN BadWrites ELSE {{}}) :
              do_download_attachments(text, res, failing, selection, bad)
    \/ \E res \in SearchAnswers :
         \E failing \in FailingSets(res),
            text \in (IF Asking(res) THEN DeleteTexts ELSE {<<>>}),
            confirm \in (IF Asking(res) THEN BOOLEAN ELSE {FALSE}) :
              \E resDelete \in (IF confirm THEN Outcomes ELSE {"ok"}) :
                \E resExpunge \in (IF confirm /\ resDelete = "ok" THEN Outcomes ELSE {"ok"}) :
                  do_delete(text, res, failing, confirm, resDelete, resExpunge)
    \/ \E res \in Answers :
         \E closed \in (IF res = "err" THEN BOOLEAN ELSE {TRUE}) : do_logout(res, closed)
    \/ \E res \in Answers :
         \E closed \in (IF res = "err" THEN BOOLEAN ELSE {TRUE}) : do_exit(res, closed)
    \/ \E folder \in UploadFolders, res \in Answers : do_upload(folder, res)

Listing == session /\ current_messages # {}

Gui ==
    \/ \E dialogOk \in BOOLEAN :
         \E res \in (IF dialogOk THEN Outcomes ELSE {"ok"}),
            collected \in (IF dialogOk /\ HasConn THEN BOOLEAN ELSE {FALSE}) :
              connect_to_server(dialogOk, res, collected)
    \/ \E dialogOk \in (IF session THEN BOOLEAN ELSE {TRUE}) :
         \E res \in (IF dialogOk THEN Answers ELSE {"ok"}) : gui_login(dialogOk, res)
    \/ \E res \in Answers : gui_list_folders(res)
    \/ \E dialogOk \in (IF session THEN BOOLEAN ELSE {TRUE}) :
         \E folder \in (IF dialogOk THEN Folders ELSE {"INBOX"}),
            res \in (IF dialogOk THEN Answers ELSE {"ok"}) :
              gui_select_folder(dialogOk, folder, res)
    \/ \E res \in SearchAnswers :
         \E failing \in FailingSets(res) : list_emails(res, failing)
    \/ \E dialogOk \in (IF Listing THEN BOOLEAN ELSE {TRUE}) :
         \E msg_id \in (IF Listing /\ dialogOk THEN AllIds ELSE {1}) :
           \E failing \in (IF Listing /\ dialogOk THEN SUBSET {msg_id} ELSE {{}}),
              bad \in (IF Listing /\ dialogOk /\ msg_id \in current_messages
                       THEN BadWrites ELSE {{}}) :
                download_attachments(dialogOk, msg_id, failing, bad)
    \/ \E dialogOk \in (IF Listing THEN BOOLEAN ELSE {TRUE}) :
         \E text \in (IF Listing /\ dialogOk THEN IdTexts ELSE {<<>>}),
            confirm \in (IF Listing /\ dialogOk THEN BOOLEAN ELSE {FALSE}) :
              \E resDelete \in (IF confirm THEN Outcomes ELSE {"ok"}) :
                \E resExpunge \in (IF confirm /\ resDelete = "ok" THEN Outcomes ELSE {"ok"}) :
                  gui_delete_emails(dialogOk, text, confirm, resDelete, resExpunge)
    \/ \E res \in Answers :
         \E closed \in (IF res = "err" THEN BOOLEAN ELSE {TRUE}) : gui_logout(res, closed)

Next == Shell \/ Gui

Spec == Init /\ [][Next]_vars

\* ------------------------------------------------ the id filter on its own
\* The three places that filter the text of an id prompt, each applied to
\* every text of up to MaxInputLen characters.
ParseInit ==
    /\ ui = "shell"
    /\ MainInit
    /\ ids_input \in SeqsUpTo(Chars, MaxInputLen)
    /\ parsed = NotParsed
    /\ header = <<>>
    /\ decoded = NotDecoded
    /\ files = NoFiles
    /\ att_list = <<>>
    /\ att_dir = 0
    /\ att_err = FALSE

\* IMAPClientShell.get_message_ids_input (do_download_attachments)
ShellDownloadIds ==
    /\ parsed = NotParsed
    /\ parsed' = [by |-> "download", raised |-> ParseIds(ids_input).raised,
                  ids |-> get_message_ids_input(ids_input)]
    /\ UNCHANGED <<mainVars, ids_input, decodeVars, saveVars>>

\* IMAPClientShell.do_delete: the ValueError is caught and the command left.
ShellDeleteIds ==
    /\ parsed = NotParsed
    /\ parsed' = [by |-> "delete", raised |-> ParseIds(ids_input).raised,
                  ids |-> IF ParseIds(ids_input).raised THEN <<>> ELSE ParseIds(ids_input).ids]
    /\ UNCHANGED <<mainVars, ids_input, decodeVars, saveVars>>

\* IMAPClientGUI.delete_emails: ids_to_delete, the ValueError caught likewise.
GuiDeleteIds ==
    /\ parsed = NotParsed
    /\ parsed' = [by |-> "gui_delete", raised |-> ParseIds(ids_input).raised,
                  ids |-> IF ParseIds(ids_input).raised THEN <<>> ELSE ParseIds(ids_input).ids]
    /\ UNCHANGED <<mainVars, ids_input, decodeVars, saveVars>>

ParseNext == ShellDownloadIds \/ ShellDeleteIds \/ GuiDeleteIds

SpecParse == ParseInit /\ [][ParseNext]_vars

\* --------------------------------------------- header decoding on its own
DecodeInit ==
    /\ ui = "shell"
    /\ MainInit
    /\ ids_input = <<>>
    /\ parsed = NotParsed
    /\ header \in SeqsUpTo(Bytes, MaxHeaderLen)
    /\ decoded = NotDecoded
    /\ files = NoFiles
    /\ att_list = <<>>
    /\ att_dir = 0
    /\ att_err = FALSE

Decoding(by, r) ==
    /\ decoded = NotDecoded
    /\ decoded' = [by |-> by, raised |-> r.raised, value |-> r.value]
    /\ UNCHANGED <<mainVars, parseVars, header, saveVars>>

ExtractSender == Decoding("extract_sender", extract_sender(header))
ExtractSubject == Decoding("extract_subject", extract_subject(header))
ExtractAttachments == Decoding("extract_attachments", extract_attachment_filename(header))

DecodeNext == ExtractSender \/ ExtractSubject \/ ExtractAttachments

SpecDecode == DecodeInit /\ [][DecodeNext]_vars

\* ------------------------------------------------------ saving on its own
DataValues == {1, 2}
AttLists == SeqsUpTo({Att(f, d) : f \in Filenames, d \in DataValues}, MaxAttachments)
DownloadIds == {1}

FilesInit ==
    /\ ui = "shell"
    /\ MainInit
    /\ PureInit

Saving(dir, atts, ws) ==
    /\ files' = ApplyWrites(files, ws)
    /\ att_list' = atts
    /\ att_dir' = dir
    /\ att_err' = OsErrorReported(ws)
    /\ UNCHANGED <<mainVars, parseVars, decodeVars>>

\* IMAPClientWrapper.save_attachments on any list
SaveAttachments(atts, bad) == Saving(0, atts, save_attachments(atts, bad))

\* IMAPClientWrapper.download_specific_attachments on any list
DownloadSpecific(msg_id, atts, bad) ==
    Saving(msg_id, atts, download_specific_attachments(msg_id, atts, bad))

FilesNext ==
    \/ \E atts \in AttLists, bad \in SUBSET (1..MaxAttachments) : SaveAttachments(atts, bad)
    \/ \E msg_id \in DownloadIds, atts \in AttLists, bad \in SUBSET (1..MaxAttachments) :
         DownloadSpecific(msg_id, atts, bad)

SpecFiles == FilesInit /\ [][FilesNext]_vars

\* ---------------------------------------------------------- the properties
LibraryOps == {"login", "list_folders", "select_folder", "search", "fetch",
               "delete_messages", "expunge", "append", "logout"}
FolderOps == {"search", "fetch", "delete_messages", "expunge"}

CallsOf(ops) == {i \in 1..Len(calls) : calls[i].op \in ops}
FailedCalls == {i \in 1..Len(calls) : ~calls[i].ok}

\* C1: an operation other than connect that is invoked while no open library
\* connection exists issues no library call and lets no exception escape.
C1_GuardedWithoutConnection ==
    (last.op \notin {"init", "connect"} /\ ~last.hadConn)
        => (CallsOf(LibraryOps) = {} /\ pc # "crashed")

\* C2: no search, fetch, delete_messages or expunge call is issued unless a
\* select_folder call has succeeded earlier in the current session.
C2_FolderSelectedBeforeFetchDelete ==
    CallsOf(FolderOps) # {} => current_folder # "None"

\* C3: at most one library connection opened by the instance is open at any
\* time, also after a connect issued while a session is already open.
C3_AtMostOneOpenConnection == Cardinality(openConns) <= 1

\* C4: a step in which a library call fails leaves the front end's session
\* reference, the wrapper's connection handle and the selected folder as
\* they were, and the front end keeps accepting commands.
C4_FailureKeepsSession ==
    [][(\E i \in 1..Len(calls') : ~calls'[i].ok)
         => /\ session' = session
            /\ client' = client
            /\ current_folder' = current_folder
            /\ pc' = "running"]_vars

\* The library calls an operation forwards to, and what it reported.
ForwardedTo(op) ==
    IF op = "connect" THEN {"connect"}
    ELSE IF op = "login" THEN {"login"}
    ELSE IF op = "select" THEN {"select_folder"}
    ELSE {"delete_messages", "expunge"}
Succeeded(op) ==
    /\ CallsOf(ForwardedTo(op)) # {}
    /\ \A i \in CallsOf(ForwardedTo(op)) : calls[i].ok
Reported(op) ==
    {out[i].kind : i \in {j \in 1..Len(out) : out[j].by = op
                                              /\ out[j].kind \in {"success", "error"}}}

\* C5: connect, login, select and delete report a success message exactly
\* when the library call succeeded and an error otherwise, and the status
\* never reads 'Connected' after a connect whose library call failed.
C5_OneOutcomeReported ==
    (last.op \in {"connect", "login", "select", "delete"} /\ last.reached)
        => /\ Reported(last.op) = IF Succeeded(last.op) THEN {"success"} ELSE {"error"}
           /\ (last.op = "connect" /\ ~Succeeded("connect")
                 => status_label # "Connected to server")

C7_FilesHoldTheirData ==
    (att_list # <<>> /\ ~att_err)
        => \A i \in 1..Len(att_list) :
             FileAt(files, att_dir, att_list[i].filename) = att_list[i].data

\* The ids of the tokens that, trimmed, consist only of decimal digits.
RECURSIVE ExpectedIds(_)
ExpectedIds(toks) ==
    IF toks = <<>> THEN <<>>
    ELSE LET t == Strip(Head(toks))
         IN  (IF t # <<>> /\ \A i \in 1..Len(t) : t[i] \in DecimalDigits
              THEN <<IntValue(t)>> ELSE <<>>) \o ExpectedIds(Tail(toks))

\* C8: the id list of an input is exactly, in input order, the values of
\* its tokens that after trimming consist only of decimal digits; any other
\* token contributes nothing and raises nothing.
C8_IdsAreTheDecimalTokens ==
    parsed.by # "none"
        => (~parsed.raised /\ parsed.ids = ExpectedIds(Split(ids_input)))

\* The messages the last handler fetched.
FetchedNow == {calls[i].arg[1] : i \in {j \in CallsOf({"fetch"}) : calls[j].ok}}

\* C9: after list_emails the listing map holds exactly the messages that
\* call fetched, nothing of an earlier listing; after logout it is empty.
C9_ListingClearedOnRelist ==
    ui = "gui" =>
        /\ last.op = "list_emails" => current_messages = FetchedNow
        /\ last.op = "logout" => current_messages = {}

\* A re-list that came back empty or failed while an earlier listing was shown.
C9_Witness ==
    /\ ui = "gui" /\ last.op = "list_emails" /\ last.reached /\ last.hadListing
    /\ FetchedNow = {} /\ calls # <<>>

\* C10: the decoders never raise, return the UTF-8 decoding of bytes that are
\* valid UTF-8 and the Latin-1 decoding of bytes that are not.
C10_Utf8ThenLatin1 ==
    decoded.by # "none"
        => /\ ~decoded.raised
           /\ decoded.value = IF Utf8Decode(header, "strict").raised
                              THEN Latin1Decode(header).value
                              ELSE Utf8Decode(header, "strict").value

C12_FoldersShownWhenReturned ==
    (/\ ui = "gui" /\ last.op = "list"
     /\ DOMAIN mailbox # {}
     /\ \E i \in CallsOf({"list_folders"}) : calls[i].ok)
        => /\ \E j \in 1..Len(out) : out[j].ch = "output" /\ out[j].text = "Available Folders:"
           /\ \A j \in 1..Len(out) : out[j].text # "No folders found."

\* C13: in the GUI every id held in current_messages was listed from the
\* folder now selected on the connection now open.
C13_ListingFromCurrentFolder ==
    (ui = "gui" /\ current_messages # {})
        => (HasConn /\ listed.conn = client /\ listed.folder = current_folder)

\* C14: a GUI Delete Emails run removes from current_messages exactly the
\* ids the library deleted in that run; when delete_emails is stopped by its
\* guards or a library call fails, current_messages is unchanged.
C14_RemovedIffDeleted ==
    [][(ui = "gui" /\ last'.op = "delete")
         => current_messages' =
              current_messages \
                (IF /\ \E i \in 1..Len(calls') :
                         calls'[i].op = "delete_messages" /\ calls'[i].ok
                    /\ \E i \in 1..Len(calls') :
                         calls'[i].op = "expunge" /\ calls'[i].ok
                 THEN Range(last'.ids) ELSE {})]_vars

====
